---- MODULE Spec2Model ----
(***************************************************************************)
(* Model of backend/main.py: the POST /auth/google handler                 *)
(* google_auth_exchange, which exchanges a Google authorization code for   *)
(* tokens with one outbound POST and returns access and id token only.     *)
(*                                                                         *)
(* Python values are records [t, s]: t is the type ("none", "str", "int"), *)
(* s the characters of a str (a sequence of character codes).  A JSON      *)
(* object is a function from its keys to values, an absent key being None, *)
(* which is what dict.get returns for it.                                  *)
(***************************************************************************)
EXTENDS Integers, Sequences, FiniteSets, TLC

\* ---------------------------------------------------------------- bounds
NumRequests == 2        \* requests the model serves (concurrently)
LongLen == 22           \* length of the long token strings (> TruncLen)
ShortLen == 3           \* length of the short strings

\* ------------------------------------------------------- program constants
TruncLen == 20                          \* v[:20] at main.py:88,108,126
HTTP_400_BAD_REQUEST == 400
HTTP_500_INTERNAL_SERVER_ERROR == 500
HTTP_502_BAD_GATEWAY == 502
HTTP_503_SERVICE_UNAVAILABLE == 503
HTTP_200_OK == 200

Requests == 1..NumRequests

\* ------------------------------------------------------------ Python values
None == [t |-> "none", s |-> <<>>]
Str(chars) == [t |-> "str", s |-> chars]
IntVal == [t |-> "int", s |-> <<>>]          \* a non-zero int such as 123

Rep(c, n) == [i \in 1..n |-> c]
Dots == <<46, 46, 46>>                        \* the '...' the log lines append

\* Python truthiness: `not v` is true for None and for the empty string
Truthy(v) == \/ v.t = "int"
             \/ v.t = "str" /\ v.s # <<>>

Min(a, b) == IF a < b THEN a ELSE b

\* v[:n] on a str
Prefix(chars, n) == SubSeq(chars, 1, Min(n, Len(chars)))

\* t occurs inside s
IsSubstr(t, s) ==
    /\ Len(t) > 0
    /\ Len(t) <= Len(s)
    /\ \E i \in 0..(Len(s) - Len(t)) : SubSeq(s, i + 1, i + Len(t)) = t

\* ----------------------------------------------------------- input domains
AccessTok == Str(Rep(65, LongLen))
IdTok == Str(Rep(73, LongLen))
RefreshLong == Str(Rep(82, LongLen))
RefreshShort == Str(Rep(114, ShortLen))
ErrText == Str(Rep(101, ShortLen))
ErrDescText == Str(Rep(100, ShortLen))
CodeText == Str(Rep(99, ShortLen))
CfgText == Str(Rep(103, ShortLen))

TokenKeys == {"access_token", "id_token", "refresh_token"}
ErrorKeys == {"error", "error_description"}
Keys == TokenKeys \cup ErrorKeys

EmptyObj == [k \in Keys |-> None]

\* bodies a token endpoint can send: not JSON, a JSON array, JSON objects
TokenObjs ==
    { [EmptyObj EXCEPT !["access_token"] = a, !["id_token"] = i,
                       !["refresh_token"] = f] :
        a \in {None, Str(<<>>), AccessTok},
        i \in {None, Str(<<>>), IdTok},
        f \in {None, RefreshShort, RefreshLong} }
ErrorObjs ==
    { [EmptyObj EXCEPT !["error"] = e, !["error_description"] = d,
                       !["refresh_token"] = f] :
        e \in {None, ErrText},
        d \in {None, ErrDescText},
        f \in {None, RefreshLong} }

Body(kind, obj) == [kind |-> kind, obj |-> obj]
NoBody == Body("text", EmptyObj)
Bodies == {Body("text", EmptyObj), Body("array", EmptyObj)}
          \cup {Body("object", o) : o \in TokenObjs \cup ErrorObjs}

Statuses == {200, 400, 401}
IsSuccess(st) == st >= 200 /\ st < 300

\* what `await client.post(...)` produces: a response, or a transport error
HttpReplies == [net : {"ok"}, status : Statuses, body : Bodies]
NetError == [net |-> "error", status |-> 0, body |-> NoBody]
NoReply == [net |-> "none", status |-> 0, body |-> NoBody]

\* request bodies: {"code": ...} with code absent, "", a string, an int
RequestBodies == [code : {None, Str(<<>>), CodeText, IntVal}]
NoRequest == [code |-> None]

CredValues == {None, Str(<<>>), CfgText}

VARIABLES
    creds,      \* GOOGLE_CLIENT_ID, GOOGLE_CLIENT_SECRET, GOOGLE_REDIRECT_URI
    pc,         \* per request: "idle", "awaiting" (at the await), "done"
    request,    \* per request: request_data
    reply,      \* per request: what the provider answered
    responses,  \* per request: what the handler handed back, in order
    log,        \* per request: what it printed, in order
    posts,      \* per request: number of client.post calls made
    stored      \* per request: refresh tokens handed to a storage collaborator

vars == <<creds, pc, request, reply, responses, log, posts, stored>>


\* ------------------------------------------------------ what gets returned
\* the text interpolated into an error detail or a log line
NoArg == [src |-> "none", v |-> None, body |-> NoBody, exc |-> ""]
ValueArg(v) == [src |-> "value", v |-> v, body |-> NoBody, exc |-> ""]
RawArg(body) == [src |-> "raw", v |-> None, body |-> body, exc |-> ""]
ExcArg(name) == [src |-> "exc", v |-> None, body |-> NoBody, exc |-> name]

\* the character strings an interpolated text carries; response.text of a
\* body carries the text of every value in it
TextsOf(arg) ==
    CASE arg.src = "value" -> IF arg.v.t = "str" THEN {arg.v.s} ELSE {}
      [] arg.src = "raw" ->
            {arg.body.obj[k].s : k \in {j \in Keys : arg.body.obj[j].t = "str"}}
      [] OTHER -> {}

Detail(msg, arg) == [msg |-> msg, arg |-> arg]

\* raise HTTPException(status_code, detail)
HTTPException(st, msg, arg) ==
    [kind |-> "HTTPException", status |-> st,
     body |-> [detail |-> Detail(msg, arg)]]

\* an exception that leaves the handler: the framework answers 500 with the
\* plain text "Internal Server Error", not with a JSON detail
Unhandled(name) ==
    [kind |-> "unhandled", status |-> 500, body |-> [text |-> name]]

LogEntry(line, shown) == [line |-> line, shown |-> shown]

\* main.py:108: v[:20] + '...' if isinstance(v, str) and len(v) > 20 else v
Redact(v) ==
    IF v.t = "str" /\ Len(v.s) > TruncLen
    THEN Str(Prefix(v.s, TruncLen) \o Dots)
    ELSE v

StrTexts(vals) == {v.s : v \in {w \in vals : w.t = "str"}}

\* variant: any(...) in place of all(...)
CredsComplete_Any(c) ==
    \/ Truthy(c.client_id)
    \/ Truthy(c.client_secret)
    \/ Truthy(c.redirect_uri)

\* main.py:47,82: all([GOOGLE_CLIENT_ID, GOOGLE_CLIENT_SECRET, GOOGLE_REDIRECT_URI])
CredsComplete(c) ==
    /\ Truthy(c.client_id)
    /\ Truthy(c.client_secret)
    /\ Truthy(c.redirect_uri)

\* variant: `if auth_code is None`, which lets the empty string through
CodeMissing_IsNone(auth_code) == auth_code.t = "none"

\* main.py:76: if not auth_code
CodeMissing(auth_code) == ~Truthy(auth_code)

\* main.py:88: auth_code[:20] works on a str, raises TypeError on an int
Subscriptable(v) == v.t = "str"

\* variant: `and` in place of `or`
Incomplete_And(access_token, id_token) ==
    ~Truthy(access_token) /\ ~Truthy(id_token)

\* main.py:114: if not access_token or not id_token
Incomplete(access_token, id_token) ==
    ~Truthy(access_token) \/ ~Truthy(id_token)

\* variant: the returned dict also has the refresh token
ClientResponse_Leaky(tokens) ==
    [kind |-> "return", status |-> HTTP_200_OK,
     body |-> [access_token |-> tokens["access_token"],
               id_token |-> tokens["id_token"],
               refresh_token |-> tokens["refresh_token"],
               message |-> "Tokens obtenidos exitosamente desde el backend."]]

\* main.py:138-142: the dict the handler returns
ClientResponse(tokens) ==
    [kind |-> "return", status |-> HTTP_200_OK,
     body |-> [access_token |-> tokens["access_token"],
               id_token |-> tokens["id_token"],
               message |-> "Tokens obtenidos exitosamente desde el backend."]]

\* variant: the generic handler answers 502
GenericHandler_502(name) ==
    [response |-> HTTPException(HTTP_502_BAD_GATEWAY,
                    "Error interno del servidor durante la autenticación: ",
                    ExcArg(name)),
     log |-> <<LogEntry(160, {})>>]

\* main.py:158-164: except Exception as e
GenericHandler(name) ==
    [response |-> HTTPException(HTTP_500_INTERNAL_SERVER_ERROR,
                    "Error interno del servidor durante la autenticación: ",
                    ExcArg(name)),
     log |-> <<LogEntry(160, {})>>]

\* variant: `error` preferred to `error_description`
ErrorDescription_ErrorFirst(body) ==
    IF body.kind # "object" THEN RawArg(body)
    ELSE IF body.obj["error"] # None THEN ValueArg(body.obj["error"])
    ELSE IF body.obj["error_description"] # None
         THEN ValueArg(body.obj["error_description"])
    ELSE RawArg(body)

\* main.py:146-151: the provider's error description, else the raw body
ErrorDescription(body) ==
    IF body.kind # "object" THEN RawArg(body)
    ELSE IF body.obj["error_description"] # None
         THEN ValueArg(body.obj["error_description"])
    ELSE IF body.obj["error"] # None THEN ValueArg(body.obj["error"])
    ELSE RawArg(body)

\* main.py:144-157: except httpx.HTTPStatusError as e
StatusErrorHandler(body) ==
    LET d == ErrorDescription(body) IN
    [response |-> HTTPException(HTTP_502_BAD_GATEWAY,
                    "Error al comunicarse con el servicio de autenticación de Google: ",
                    d),
     log |-> <<LogEntry(153, TextsOf(d))>>]

\* main.py:107-142: the try block after a 2xx reply
\* result: the response, and the lines printed
TokensBlock(body) ==
    IF body.kind = "text"
    THEN GenericHandler("JSONDecodeError")                  \* response.json()
    ELSE IF body.kind = "array"
    THEN GenericHandler("AttributeError")                   \* tokens.items()
    ELSE
      LET tokens == body.obj
          l108 == LogEntry(108, StrTexts({Redact(tokens[k]) : k \in Keys}))
          access_token == tokens["access_token"]
          id_token == tokens["id_token"]
          refresh_token == tokens["refresh_token"]
      IN
      IF Incomplete(access_token, id_token)
      THEN LET g == GenericHandler("500: Respuesta de token incompleta de Google.")
           IN [response |-> g.response,
               log |-> <<l108, LogEntry(115, StrTexts({tokens[k] : k \in Keys}))>>
                       \o g.log]
      ELSE IF Truthy(refresh_token)
      THEN [response |-> ClientResponse(tokens),
            log |-> <<l108,
                      LogEntry(126, {Prefix(refresh_token.s, TruncLen) \o Dots}),
                      LogEntry(127, {})>>]
      ELSE [response |-> ClientResponse(tokens),
            log |-> <<l108, LogEntry(133, {})>>]

\* ----------------------------------------------------------------- actions
Init ==
    /\ creds \in [client_id : CredValues, client_secret : CredValues,
                  redirect_uri : CredValues]
    /\ pc = [r \in Requests |-> "idle"]
    /\ request = [r \in Requests |-> NoRequest]
    /\ reply = [r \in Requests |-> NoReply]
    /\ responses = [r \in Requests |-> <<>>]
    /\ log = [r \in Requests |-> <<>>]
    /\ posts = [r \in Requests |-> 0]
    /\ stored = [r \in Requests |-> <<>>]

\* the handler ends: it returned a value or raised
Respond(r, resp, lines) ==
    /\ pc' = [pc EXCEPT ![r] = "done"]
    /\ responses' = [responses EXCEPT ![r] = Append(@, resp)]
    /\ log' = [log EXCEPT ![r] = @ \o lines]

\* main.py:74-104: from the arrival of the request to the await of the POST
Receive(r, request_data) ==
    /\ pc[r] = "idle"
    /\ request' = [request EXCEPT ![r] = request_data]
    /\ LET auth_code == request_data.code IN
       IF CodeMissing(auth_code)
       THEN /\ Respond(r, HTTPException(HTTP_400_BAD_REQUEST,
                   "El código de autorización ('code') es requerido en el cuerpo JSON.",
                   NoArg), <<>>)
            /\ UNCHANGED posts
       ELSE IF ~CredsComplete(creds)
       THEN /\ Respond(r, HTTPException(HTTP_503_SERVICE_UNAVAILABLE,
                   "Error de configuración del servidor: Las credenciales de Google no están completas en el backend.",
                   NoArg), <<>>)
            /\ UNCHANGED posts
       ELSE IF ~Subscriptable(auth_code)
       THEN /\ Respond(r, Unhandled("TypeError"), <<>>)
            /\ UNCHANGED posts
       ELSE /\ pc' = [pc EXCEPT ![r] = "awaiting"]
            /\ log' = [log EXCEPT ![r] =
                   @ \o <<LogEntry(88, {Prefix(auth_code.s, TruncLen) \o Dots}),
                          LogEntry(103, {})>>]
            /\ posts' = [posts EXCEPT ![r] = @ + 1]
            /\ UNCHANGED responses
    /\ UNCHANGED <<creds, reply, stored>>

\* main.py:104-142: the provider answered 2xx
ReplySuccess(r, rep) ==
    /\ pc[r] = "awaiting"
    /\ rep.net = "ok" /\ IsSuccess(rep.status)
    /\ reply' = [reply EXCEPT ![r] = rep]
    /\ LET res == TokensBlock(rep.body) IN Respond(r, res.response, res.log)
    /\ UNCHANGED <<creds, request, posts, stored>>

\* variant: a handler that posts again after a non-2xx reply instead of answering
ReplyStatusError_Retry(r, rep) ==
    /\ pc[r] = "awaiting"
    /\ rep.net = "ok" /\ ~IsSuccess(rep.status)
    /\ posts[r] < 2
    /\ posts' = [posts EXCEPT ![r] = @ + 1]
    /\ UNCHANGED <<creds, pc, request, reply, responses, log, stored>>

\* main.py:105,144-157: the provider answered non-2xx, raise_for_status raises
ReplyStatusError(r, rep) ==
    /\ pc[r] = "awaiting"
    /\ rep.net = "ok" /\ ~IsSuccess(rep.status)
    /\ reply' = [reply EXCEPT ![r] = rep]
    /\ LET res == StatusErrorHandler(rep.body) IN Respond(r, res.response, res.log)
    /\ UNCHANGED <<creds, request, posts, stored>>

\* main.py:104,158-164: client.post raised a transport error
ReplyNetworkError(r) ==
    /\ pc[r] = "awaiting"
    /\ reply' = [reply EXCEPT ![r] = NetError]
    /\ LET res == GenericHandler("ConnectError") IN Respond(r, res.response, res.log)
    /\ UNCHANGED <<creds, request, posts, stored>>

Next ==
    \/ \E r \in Requests, d \in RequestBodies : Receive(r, d)
    \/ \E r \in Requests, rep \in HttpReplies : ReplySuccess(r, rep)
    \/ \E r \in Requests, rep \in HttpReplies : ReplyStatusError(r, rep)
    \/ \E r \in Requests : ReplyNetworkError(r)

Spec == Init /\ [][Next]_vars

\* ------------------------------------------------------------- properties
\* vocabulary of the properties, stated independently of the handler's tests
NonEmptyStr(v) == v.t = "str" /\ Len(v.s) > 0
Configured(c) ==
    \A f \in {"client_id", "client_secret", "redirect_uri"} : NonEmptyStr(c[f])
Answered(r) == pc[r] = "done" /\ Len(responses[r]) = 1
Resp(r) == responses[r][1]
Upstream2xx(r) ==
    pc[r] = "done" /\ reply[r].net = "ok" /\ reply[r].status \in 200..299
UpstreamNon2xx(r) ==
    pc[r] = "done" /\ reply[r].net = "ok" /\ reply[r].status \notin 200..299
UpstreamTokens(r) == reply[r].body.obj
IsError(resp, st) ==
    /\ resp.kind = "HTTPException"
    /\ resp.status = st
    /\ DOMAIN resp.body = {"detail"}

\* the response (200 body, or error detail) carries the characters `secret`
Carries(resp, secret) ==
    CASE resp.kind = "return" ->
            \E k \in DOMAIN resp.body \ {"message"} :
                resp.body[k].t = "str" /\ IsSubstr(secret, resp.body[k].s)
      [] resp.kind = "HTTPException" ->
            \E t \in TextsOf(resp.body.detail.arg) : IsSubstr(secret, t)
      [] OTHER -> FALSE

\* C1: no response, 200 body or error detail, carries a refresh token that
\* the upstream supplied
C1_RefreshTokenNeverReturned ==
    \A r \in Requests : \A i \in 1..Len(responses[r]) :
        NonEmptyStr(UpstreamTokens(r)["refresh_token"])
            => ~Carries(responses[r][i], UpstreamTokens(r)["refresh_token"].s)

\* C2: a non-empty code, complete credentials and a 2xx reply with non-empty
\* access_token and id_token give 200 with exactly the access token, the id
\* token and a message, with or without a refresh_token in the reply
C2_SuccessShape ==
    \A r \in Requests :
        ( /\ Upstream2xx(r)
          /\ NonEmptyStr(request[r].code)
          /\ reply[r].body.kind = "object"
          /\ NonEmptyStr(UpstreamTokens(r)["access_token"])
          /\ NonEmptyStr(UpstreamTokens(r)["id_token"]) )
        => /\ Answered(r)
           /\ Resp(r).kind = "return"
           /\ Resp(r).status = 200
           /\ DOMAIN Resp(r).body = {"access_token", "id_token", "message"}
           /\ Resp(r).body["access_token"] = UpstreamTokens(r)["access_token"]
           /\ Resp(r).body["id_token"] = UpstreamTokens(r)["id_token"]
           /\ Resp(r).body["message"] =
                  "Tokens obtenidos exitosamente desde el backend."

C2_Witness ==
    \E r \in Requests :
        /\ Upstream2xx(r)
        /\ NonEmptyStr(UpstreamTokens(r)["access_token"])
        /\ NonEmptyStr(UpstreamTokens(r)["id_token"])
        /\ NonEmptyStr(UpstreamTokens(r)["refresh_token"])
        /\ Answered(r) /\ Resp(r).status = 200

\* C3: a request without code, or with code "", is answered 400 and makes no
\* outbound call, whatever the credentials
C3_MissingCodeIs400 ==
    \A r \in Requests :
        (pc[r] # "idle" /\ request[r].code \in {None, Str(<<>>)})
        => /\ Answered(r)
           /\ IsError(Resp(r), 400)
           /\ posts[r] = 0

C3_Witness ==
    \E r \in Requests :
        /\ request[r].code = Str(<<>>)
        /\ Configured(creds)
        /\ Answered(r) /\ Resp(r).status = 400 /\ posts[r] = 0

\* C4 as stated: with a credential missing, every request, a missing or
\* empty code included, is answered 503 and makes no outbound call
C4_Original ==
    \A r \in Requests :
        (pc[r] # "idle" /\ ~Configured(creds))
        => /\ Answered(r)
           /\ IsError(Resp(r), 503)
           /\ posts[r] = 0

\* C4 amended: with a credential missing, no request makes an outbound call;
\* a request whose code is present and non-empty is answered 503, one whose
\* code is missing or empty is answered 400
C4_MisconfiguredIs503 ==
    \A r \in Requests :
        (pc[r] # "idle" /\ ~Configured(creds))
        => /\ Answered(r)
           /\ posts[r] = 0
           /\ IF request[r].code \in {None, Str(<<>>)}
              THEN IsError(Resp(r), 400)
              ELSE IsError(Resp(r), 503)

C4_Witness ==
    \E r \in Requests :
        /\ ~Configured(creds)
        /\ NonEmptyStr(creds.client_id)
        /\ NonEmptyStr(request[r].code)
        /\ Answered(r) /\ Resp(r).status = 503 /\ posts[r] = 0

\* the detail C5 expects for a non-2xx body
ExpectedDescription(body) ==
    IF body.kind = "object" /\ body.obj["error_description"].t # "none"
    THEN ValueArg(body.obj["error_description"])
    ELSE IF body.kind = "object" /\ body.obj["error"].t # "none"
    THEN ValueArg(body.obj["error"])
    ELSE RawArg(body)

\* C5: every non-2xx reply is answered 502, the detail carrying the body's
\* error_description, else its error, else the raw body
C5_UpstreamErrorIs502 ==
    \A r \in Requests :
        UpstreamNon2xx(r)
        => /\ Answered(r)
           /\ IsError(Resp(r), 502)
           /\ Resp(r).body.detail.arg = ExpectedDescription(reply[r].body)

C5_Witness ==
    \E r \in Requests :
        /\ UpstreamNon2xx(r)
        /\ reply[r].status = 401
        /\ reply[r].body.kind = "object"
        /\ NonEmptyStr(reply[r].body.obj["error_description"])
        /\ NonEmptyStr(reply[r].body.obj["error"])
        /\ Answered(r) /\ Resp(r).status = 502

\* C6: a 2xx reply whose object lacks access_token or id_token (or has it
\* empty) is answered 500, and the response carries no token of that reply
C6_IncompleteIs500 ==
    \A r \in Requests :
        ( /\ Upstream2xx(r)
          /\ reply[r].body.kind = "object"
          /\ \/ ~NonEmptyStr(UpstreamTokens(r)["access_token"])
             \/ ~NonEmptyStr(UpstreamTokens(r)["id_token"]) )
        => /\ Answered(r)
           /\ IsError(Resp(r), 500)
           /\ \A k \in TokenKeys :
                 NonEmptyStr(UpstreamTokens(r)[k])
                     => ~Carries(Resp(r), UpstreamTokens(r)[k].s)

C6_Witness ==
    \E r \in Requests :
        /\ Upstream2xx(r)
        /\ reply[r].body.kind = "object"
        /\ NonEmptyStr(UpstreamTokens(r)["access_token"])
        /\ UpstreamTokens(r)["id_token"] = None
        /\ NonEmptyStr(UpstreamTokens(r)["refresh_token"])
        /\ Answered(r) /\ Resp(r).status = 500

\* C7: a 2xx reply with access, id and refresh token hands the refresh token
\* to the persistence collaborator exactly once, and the response omits it
C7_RefreshTokenStoredOnce ==
    \A r \in Requests :
        ( /\ Upstream2xx(r)
          /\ reply[r].body.kind = "object"
          /\ \A k \in TokenKeys : NonEmptyStr(UpstreamTokens(r)[k]) )
        => /\ stored[r] = <<UpstreamTokens(r)["refresh_token"]>>
           /\ Answered(r)
           /\ ~Carries(Resp(r), UpstreamTokens(r)["refresh_token"].s)

\* C8: every request ends either with the 200 result or with a structured
\* error of status 400, 502, 500 or 503 that has a detail
C8_FailuresAreStructured ==
    \A r \in Requests :
        pc[r] = "done"
        => /\ Answered(r)
           /\ \/ Resp(r).kind = "return"
              \/ \E st \in {400, 502, 500, 503} : IsError(Resp(r), st)

\* C9: a request makes one outbound POST when its code is a non-empty string
\* and the credentials are complete, none otherwise, never a second one, and
\* it ends with exactly one response
C9_SinglePost ==
    \A r \in Requests :
        /\ posts[r] <= 1
        /\ pc[r] # "idle" =>
              posts[r] = IF NonEmptyStr(request[r].code) /\ Configured(creds)
                         THEN 1 ELSE 0
        /\ pc[r] = "awaiting" => Len(responses[r]) = 0
        /\ pc[r] = "done" => Len(responses[r]) = 1

C9_Witness ==
    \E r \in Requests :
        /\ UpstreamNon2xx(r)
        /\ Answered(r)
        /\ posts[r] = 1

\* C10: no log line shows a received refresh token longer than 20 characters
\* in full
C10_LogsTruncated ==
    \A r \in Requests : \A i \in 1..Len(log[r]) :
        ( /\ UpstreamTokens(r)["refresh_token"].t = "str"
          /\ Len(UpstreamTokens(r)["refresh_token"].s) > 20 )
        => \A t \in log[r][i].shown :
               ~IsSubstr(UpstreamTokens(r)["refresh_token"].s, t)
====
